---- MODULE Spec2Model ----
(***************************************************************************)
(* Model of the atlas layout and slot allocation code of the engine:       *)
(*   - LightTextureAtlas (src/src/scene/lighting/light-texture-atlas.js):  *)
(*     the shadow atlas allocator (subdivide, update, allocateShadowMap,   *)
(*     updateUniforms, destroy);                                           *)
(*   - EnvLighting (src/unnamed/part_000): generateAtlas and               *)
(*     generatePrefilteredAtlas, seen as the sequence of reprojectTexture  *)
(*     calls they issue.                                                   *)
(*                                                                         *)
(* Vec4 components are JavaScript numbers. The shadow atlas rectangles are *)
(* fractions (i / gridSize, 4 / resolution); they are modelled as exact    *)
(* rationals <<numerator, denominator>> in lowest terms. The environment   *)
(* atlas rectangles are integers for the atlas widths modelled here.       *)
(***************************************************************************)
EXTENDS Integers, Sequences, FiniteSets

(***************************************************************************)
(* Bounds of the model.                                                    *)
(***************************************************************************)
\* longest spotLights list of arbitrary light kinds passed to update
MaxLights == 3
\* longest spotLights list made of single-face spot lights only
MaxSingleFace == 5
\* largest numShadowFaces of a light that is not a spot light
MaxFaces == 2
\* largest numLights passed to a direct subdivide call
MaxSubdivide == 5
\* atlas widths are 128 * 2^k for k in 0..MaxSizeExp
MaxSizeExp == 4
\* largest number of shadow maps alive at once that is followed
MaxLiveMaps == 3

(***************************************************************************)
(* Exact rational arithmetic for Vec4 components.                          *)
(***************************************************************************)
Abs(n) == IF n < 0 THEN -n ELSE n

RECURSIVE Gcd(_, _)
Gcd(a, b) == IF b = 0 THEN a ELSE Gcd(b, a % b)

\* the fraction n / d (d > 0) in lowest terms
Rat(n, d) ==
    LET g == Gcd(Abs(n), d)
    IN  IF g = 0 THEN <<0, 1>> ELSE <<n \div g, d \div g>>

RAdd(p, q) == Rat(p[1] * q[2] + q[1] * p[2], p[2] * q[2])
RMul(p, q) == Rat(p[1] * q[1], p[2] * q[2])
RNeg(p) == <<-p[1], p[2]>>
RLt(p, q) == p[1] * q[2] < q[1] * p[2]
RLe(p, q) == p[1] * q[2] <= q[1] * p[2]
RZero == <<0, 1>>
ROne == <<1, 1>>

Vec4(x, y, z, w) == [x |-> x, y |-> y, z |-> z, w |-> w]

\* Vec4.add as used on shadowViewport: componentwise sum
Vec4Add(a, b) ==
    Vec4(RAdd(a.x, b.x), RAdd(a.y, b.y), RAdd(a.z, b.z), RAdd(a.w, b.w))


Min(a, b) == IF a < b THEN a ELSE b
Max(a, b) == IF a > b THEN a ELSE b

(***************************************************************************)
(* LightTextureAtlas: state.                                               *)
(***************************************************************************)
VARIABLES
    subdivision,          \* this.subdivision
    slots,                \* this.slots: sequence of Vec4
    shadowMapResolution,  \* this.shadowMapResolution
    shadowMap,            \* this.shadowMap (NullMap when null)
    uniforms,             \* what the last call pushed to shadowAtlasTexture / shadowAtlasParams
    spotLights,           \* the spotLights list of the last call, after it, if it was update
    lastCall,             \* the last operation called on the allocator and what it did
    omniLights,           \* the omniLights list of the last call, after it, if it was update
    liveMaps,             \* history: the shadow maps created and not destroyed so far
    steady,               \* history: shadowMapResolution never assigned, destroy never called
    envCall,              \* the last EnvLighting call: function and options
    calls                 \* the reprojectTexture calls issued by that call, in order

allocVars == <<subdivision, slots, shadowMapResolution, shadowMap, uniforms,
               spotLights, lastCall, omniLights, liveMaps, steady>>
envVars == <<envCall, calls>>
vars == <<subdivision, slots, shadowMapResolution, shadowMap, uniforms,
          spotLights, lastCall, omniLights, liveMaps, steady, envCall, calls>>

\* this.shadowMapResolution = 2048 in the constructor
DefaultShadowMapResolution == 2048
\* allocateShadowMap(1): placeholder as shader requires it
PlaceholderResolution == 1

\* values the owner of the allocator assigns to shadowMapResolution
Resolutions == {8, DefaultShadowMapResolution}

NullMap == [exists |-> FALSE, width |-> 0, cached |-> FALSE]

\* ShadowMap.createAtlas(device, resolution, SHADOW_PCF3): a new shadow map
\* whose texture has the requested width
CreateAtlas(resolution) == [exists |-> TRUE, width |-> resolution, cached |-> TRUE]

(***************************************************************************)
(* Lights, as update reads and writes them.                                *)
(***************************************************************************)
LIGHTTYPE_SPOT == "spot"
LIGHTTYPE_OMNI == "omni"

\* the per-face render data of a light before any update wrote it;
\* written and slot are history fields: whether the last update call wrote
\* the face, and the value of usedCount it read the slot at
NewRenderData ==
    [shadowViewport |-> Vec4(RZero, RZero, ROne, ROne),
     shadowScissor  |-> Vec4(RZero, RZero, ROne, ROne),
     written |-> FALSE, slot |-> 0]

Light(type, visible, cast, faces) ==
    [type |-> type, visibleThisFrame |-> visible, castShadows |-> cast,
     numShadowFaces |-> faces, shadowMap |-> NullMap,
     renderData |-> [f \in 1..faces |-> NewRenderData]]

\* lights that are visible this frame and cast shadows: a spot light has one
\* shadow face, another light has more
QualifyingKinds ==
    {Light(LIGHTTYPE_SPOT, TRUE, TRUE, 1), Light(LIGHTTYPE_OMNI, TRUE, TRUE, MaxFaces)}

\* lights that are not visible this frame, or do not cast shadows
NonQualifyingKinds ==
    {Light(LIGHTTYPE_SPOT, TRUE, FALSE, 1), Light(LIGHTTYPE_SPOT, FALSE, TRUE, 1)}

SeqsUpTo(S, n) == UNION {[1..k -> S] : k \in 0..n}

InsertAt(s, k, e) == SubSeq(s, 1, k) \o <<e>> \o SubSeq(s, k + 1, Len(s))

\* the spotLights arguments of update: up to MaxLights lights, at most one of
\* them not qualifying, or up to MaxSingleFace qualifying spot lights
FrameInputs ==
    SeqsUpTo(QualifyingKinds, MaxLights)
    \cup UNION {{InsertAt(s, k, e) : k \in 0..Len(s), e \in NonQualifyingKinds} :
                    s \in SeqsUpTo(QualifyingKinds, MaxLights - 1)}
    \cup {[i \in 1..k |-> Light(LIGHTTYPE_SPOT, TRUE, TRUE, 1)] : k \in 0..MaxSingleFace}

\* a light that an earlier frame's update wrote: its faces hold the rectangles
\* of that frame and the light holds that frame's shadow map
StaleLight(type, visible, cast, faces) ==
    [Light(type, visible, cast, faces) EXCEPT
        !.shadowMap = [exists |-> TRUE, width |-> DefaultShadowMapResolution,
                       cached |-> FALSE],
        !.renderData = [f \in 1..faces |->
            [shadowViewport |-> Vec4(Rat(1, 2), RZero, Rat(1, 2), Rat(1, 2)),
             shadowScissor  |-> Vec4(Rat(1, 2), RZero, Rat(1, 2), Rat(1, 2)),
             written |-> FALSE, slot |-> 0]]]

\* the omniLights arguments of update
OmniInputs ==
    {<<>>, <<Light(LIGHTTYPE_OMNI, TRUE, TRUE, MaxFaces)>>,
     <<StaleLight(LIGHTTYPE_OMNI, TRUE, TRUE, MaxFaces)>>}

\* the spotLights arguments passed together with a non-empty omniLights list
FrameInputsWithOmni ==
    SeqsUpTo(QualifyingKinds \cup NonQualifyingKinds
             \cup {StaleLight(LIGHTTYPE_SPOT, FALSE, TRUE, 1)}, 1)

(***************************************************************************)
(* LightTextureAtlas: operations.                                          *)
(***************************************************************************)
\* allocateShadowMap(resolution): the shadow map after the call
AllocateShadowMap(sm, resolution) ==
    IF ~sm.exists \/ sm.width # resolution
    THEN [CreateAtlas(resolution) EXCEPT !.cached = FALSE]
    ELSE sm

\* mutant of CreatesShadowMap: the test of the existing map dropped
CreatesShadowMap_Always(sm, resolution) == TRUE

\* whether allocateShadowMap(resolution) creates a shadow map
CreatesShadowMap(sm, resolution) == ~sm.exists \/ sm.width # resolution

\* the shadow maps alive after allocateShadowMap(resolution): a map it creates
\* is one more, and the map it replaces is not destroyed
LiveMapsAfterAllocate(live, sm, resolution) ==
    IF CreatesShadowMap(sm, resolution) THEN live + 1 ELSE live

\* the shadow maps alive after destroy(): this.shadowMap?.destroy()
LiveMapsAfterDestroy(live, sm) == IF sm.exists THEN live - 1 ELSE live

\* mutant of GridSize: Math.floor in place of Math.ceil
GridSize_Floor(numLights) ==
    CHOOSE g \in 0..numLights :
        g * g <= numLights /\ (g + 1) * (g + 1) > numLights

\* Math.ceil(Math.sqrt(numLights))
GridSize(numLights) ==
    CHOOSE g \in 0..numLights :
        g * g >= numLights /\ (g = 0 \/ (g - 1) * (g - 1) < numLights)

\* mutant of SlotRect: i and j exchanged
SlotRect_Transposed(i, j, invSize) ==
    Vec4(RMul(Rat(j, 1), invSize), RMul(Rat(i, 1), invSize), invSize, invSize)

\* new Vec4(i * invSize, j * invSize, invSize, invSize)
SlotRect(i, j, invSize) ==
    Vec4(RMul(Rat(i, 1), invSize), RMul(Rat(j, 1), invSize), invSize, invSize)

\* the slot list the two nested loops of subdivide push, i outer, j inner
BuildSlots(gridSize) ==
    [k \in 1..(gridSize * gridSize) |->
        SlotRect((k - 1) \div gridSize, (k - 1) % gridSize, Rat(1, gridSize))]

\* mutant of NeedsRebuild: the comparison with this.subdivision dropped
NeedsRebuild_Always(sub, numLights) == TRUE

\* mutant of NeedsRebuild: the grid only ever grows
NeedsRebuild_OnlyGrow(sub, numLights) == sub < GridSize(numLights)

\* whether subdivide(numLights) rebuilds the slot list
NeedsRebuild(sub, numLights) == sub # GridSize(numLights)

\* subdivide(numLights) on an allocator with subdivision sub and slot list sl
SubdivideResult(sub, sl, numLights) ==
    IF NeedsRebuild(sub, numLights)
    THEN [subdivision |-> GridSize(numLights),
          slots |-> BuildSlots(GridSize(numLights)), rebuilt |-> TRUE]
    ELSE [subdivision |-> sub, slots |-> sl, rebuilt |-> FALSE]

\* light.visibleThisFrame && light.castShadows
QualifyingLight(light) == light.visibleThisFrame /\ light.castShadows

\* the lights array of update, as the positions of its lights in spotLights
CollectLights(sp) ==
    LET idx == [i \in 1..Len(sp) |-> i]
    IN  SelectSeq(idx, LAMBDA i : QualifyingLight(sp[i]))

\* mutant of ActiveFrame: >= in place of >
ActiveFrame_Always(lights) == Len(lights) >= 0

\* if (lights.length > 0)
ActiveFrame(lights) == Len(lights) > 0

\* the argument update passes to subdivide
NumRequiredSlots(sp, lights) == Len(lights)

\* mutant of ScissorOffset: a margin of 8 texels
ScissorOffset_Eight(resolution) == Rat(8, resolution)

\* 4 / this.shadowMapResolution
ScissorOffset(resolution) == Rat(4, resolution)

ScissorVec(resolution) ==
    Vec4(ScissorOffset(resolution), ScissorOffset(resolution),
         RMul(Rat(-2, 1), ScissorOffset(resolution)),
         RMul(Rat(-2, 1), ScissorOffset(resolution)))

\* the (light, face) pairs in the order the two assignment loops visit them
RECURSIVE FacePairs(_, _)
FacePairs(sp, lights) ==
    IF lights = <<>> THEN <<>>
    ELSE [f \in 1..sp[Head(lights)].numShadowFaces |-> <<Head(lights), f - 1>>]
         \o FacePairs(sp, Tail(lights))

\* the render data written for one face that reads slot (usedCount = used)
FaceRenderData(light, slot, used, scissorVec) ==
    [shadowViewport |-> IF light.type = LIGHTTYPE_SPOT
                        THEN Vec4Add(slot, scissorVec) ELSE slot,
     shadowScissor |-> slot,
     written |-> TRUE, slot |-> used]

\* The assignment loops of update. The k-th pair visited reads
\* this.slots[k - 1]; past the end of the slot list that is undefined and
\* shadowViewport.copy(undefined) reads a component of undefined: a TypeError,
\* which ends update with the remaining faces and lights not written.
AssignSlots(sp, lights, sl, sm, scissorVec) ==
    LET pairs == FacePairs(sp, lights)
        nWritten == Min(Len(pairs), Len(sl))
        Reached(li) == \E k \in 1..Min(Len(pairs), Len(sl) + 1) : pairs[k][1] = li
        Pos(li, face) == CHOOSE k \in 1..Len(pairs) : pairs[k] = <<li, face>>
        Face(li, face) ==
            IF Pos(li, face) <= nWritten
            THEN FaceRenderData(sp[li], sl[Pos(li, face)], Pos(li, face) - 1, scissorVec)
            ELSE sp[li].renderData[face + 1]
        IsQualifying(li) == \E n \in 1..Len(lights) : lights[n] = li
    IN  [spotLights |->
            [li \in 1..Len(sp) |->
                IF IsQualifying(li)
                THEN [sp[li] EXCEPT
                        !.shadowMap = IF Reached(li) THEN sm ELSE @,
                        !.renderData = [f \in 1..sp[li].numShadowFaces |-> Face(li, f - 1)]]
                ELSE sp[li]],
         threw |-> Len(pairs) > Len(sl)]

\* mutant of SlotsAfterAssign: the viewport of a spot-light face is the slot
\* object itself, so that shrinking the viewport shrinks the stored slot
SlotsAfterAssign_Aliased(sl, sp, lights, scissorVec) ==
    LET pairs == FacePairs(sp, lights)
    IN  [k \in 1..Len(sl) |->
            IF k <= Len(pairs) /\ sp[pairs[k][1]].type = LIGHTTYPE_SPOT
            THEN Vec4Add(sl[k], scissorVec) ELSE sl[k]]

\* this.slots after the assignment loops: shadowViewport.copy(slot) and
\* shadowScissor.copy(slot) copy the components of the slot, and add() then
\* changes the light's own vector
SlotsAfterAssign(sl, sp, lights, scissorVec) == sl

\* mutant of PushedUniforms: the scalar is read from the texture
PushedUniforms_Width(sm, resolution) ==
    [set |-> TRUE, textureWidth |-> sm.width, params |-> sm.width]

\* updateUniforms(): the values pushed (the texture by the width of its shadow map);
\* NoUniforms stands for a call that pushed nothing
PushedUniforms(sm, resolution) ==
    [set |-> TRUE, textureWidth |-> sm.width, params |-> resolution]

NoUniforms == [set |-> FALSE, textureWidth |-> 0, params |-> 0]

Call(op, numLights, rebuilt, created, threw) ==
    [op |-> op, numLights |-> numLights, rebuilt |-> rebuilt,
     created |-> created, threw |-> threw]

\* mutant of OmniAfterUpdate: every omni light is given the shadow map
OmniAfterUpdate_Written(omni, sm) ==
    [i \in 1..Len(omni) |-> [omni[i] EXCEPT !.shadowMap = sm]]

\* the omniLights list after update: no statement of update reads or writes it
OmniAfterUpdate(omni, sm) == omni

\* update(spotLights, omniLights)
Update(sp, omni) ==
    LET lights == CollectLights(sp)
        active == ActiveFrame(lights)
        sm == IF active THEN AllocateShadowMap(shadowMap, shadowMapResolution)
              ELSE shadowMap
        created == active /\ CreatesShadowMap(shadowMap, shadowMapResolution)
        sub == IF active
               THEN SubdivideResult(subdivision, slots, NumRequiredSlots(sp, lights))
               ELSE [subdivision |-> subdivision, slots |-> slots, rebuilt |-> FALSE]
        asg == AssignSlots(sp, lights, sub.slots, sm, ScissorVec(shadowMapResolution))
        \* updateUniforms reads shadowMap.renderTargets: a TypeError on null
        threw == IF asg.threw THEN "slot" ELSE IF ~sm.exists THEN "uniforms" ELSE "none"
    IN  /\ created => liveMaps < MaxLiveMaps
        /\ shadowMap' = sm
        /\ liveMaps' = IF active
                       THEN LiveMapsAfterAllocate(liveMaps, shadowMap, shadowMapResolution)
                       ELSE liveMaps
        /\ subdivision' = sub.subdivision
        /\ slots' = SlotsAfterAssign(sub.slots, sp, lights, ScissorVec(shadowMapResolution))
        /\ spotLights' = asg.spotLights
        /\ omniLights' = OmniAfterUpdate(omni, sm)
        /\ uniforms' = IF threw = "none" THEN PushedUniforms(sm, shadowMapResolution)
                       ELSE NoUniforms
        /\ lastCall' = Call("update", Len(lights), sub.rebuilt, created, threw)
        /\ UNCHANGED <<shadowMapResolution, steady, envCall, calls>>

\* subdivide(numLights), called directly
Subdivide(numLights) ==
    LET sub == SubdivideResult(subdivision, slots, numLights)
    IN  /\ subdivision' = sub.subdivision
        /\ slots' = sub.slots
        /\ lastCall' = Call("subdivide", numLights, sub.rebuilt, FALSE, "none")
        /\ spotLights' = <<>>
        /\ omniLights' = <<>>
        /\ uniforms' = NoUniforms
        /\ UNCHANGED <<shadowMapResolution, shadowMap, liveMaps, steady, envCall, calls>>

\* the owner assigns this.shadowMapResolution
SetShadowMapResolution(r) ==
    /\ r # shadowMapResolution
    /\ shadowMapResolution' = r
    /\ lastCall' = Call("setResolution", 0, FALSE, FALSE, "none")
    /\ spotLights' = <<>>
    /\ omniLights' = <<>>
    /\ uniforms' = NoUniforms
    /\ steady' = FALSE
    /\ UNCHANGED <<subdivision, slots, shadowMap, liveMaps, envCall, calls>>

\* destroy()
Destroy ==
    /\ shadowMap' = NullMap
    /\ liveMaps' = LiveMapsAfterDestroy(liveMaps, shadowMap)
    /\ lastCall' = Call("destroy", 0, FALSE, FALSE, "none")
    /\ spotLights' = <<>>
    /\ omniLights' = <<>>
    /\ uniforms' = NoUniforms
    /\ steady' = FALSE
    /\ UNCHANGED <<subdivision, slots, shadowMapResolution, envCall, calls>>

(***************************************************************************)
(* EnvLighting: generateAtlas and generatePrefilteredAtlas.                *)
(*                                                                         *)
(* An absent option (undefined) is modelled as 0, or "" for a string: both *)
(* are falsy, as `options?.x || default` reads them. The atlas widths      *)
(* modelled are multiples of 16, for which every rectangle coordinate      *)
(* (a multiple of 32 times width / 512) is an integer.                     *)
(***************************************************************************)
RECURSIVE Pow2(_)
Pow2(k) == IF k = 0 THEN 1 ELSE 2 * Pow2(k - 1)

RECURSIVE FloorLog2(_)
FloorLog2(n) == IF n <= 1 THEN 0 ELSE 1 + FloorLog2(n \div 2)

\* calcLevels(width, height): 1 + Math.floor(Math.log2(Math.max(width, height)))
CalcLevels(width, height) == 1 + FloorLog2(Max(width, height))

\* a || b on numbers
OrElse(a, b) == IF a = 0 THEN b ELSE a

\* a || b on strings
OrElseStr(a, b) == IF a = "" THEN b ELSE a

AtlasSizes == {128 * Pow2(k) : k \in 0..MaxSizeExp}

\* options of generateAtlas: target is the width of options.target, 0 without one
AtlasOptions ==
    [target : {0, 2048}, size : {0} \cup AtlasSizes,
     numReflectionSamples : {0, 64}, numAmbientSamples : {0, 32},
     distribution : {"", "phong"}]

\* options of generatePrefilteredAtlas
PrefilteredOptions ==
    [target : {0, 2048}, size : {0} \cup AtlasSizes,
     legacyAmbient : BOOLEAN, numSamples : {0, 32}]

\* result.width: the target's width, or options.size || 512 of the new texture
ResultWidth(options) ==
    IF options.target # 0 THEN options.target ELSE OrElse(options.size, 512)

\* mutant of Scaled: the scale factor s dropped
Scaled_Unscaled(c, width) == c

\* c * s for s = result.width / 512
Scaled(c, width) == (c * width) \div 512

\* seamPixels: s = result.width / 512
SeamPixels(width) == Rat(width, 512)

\* Math.max(1, Math.floor(v * 0.5))
Half(v) == Max(1, v \div 2)

\* new Vec4(0, 0, 512 * s, 256 * s)
FirstMipRect(width) == Vec4(0, 0, Scaled(512, width), Scaled(256, width))

\* mutant of NextMipRect: advance by the width z instead of the height w
NextMipRect_ByWidth(rect) ==
    Vec4(rect.x + rect.z, rect.y + rect.z, Half(rect.z), Half(rect.w))

\* the mip loop body after the call: x += w, y += w, z and w halved
NextMipRect(rect) ==
    Vec4(rect.x + rect.w, rect.y + rect.w, Half(rect.z), Half(rect.w))

\* rect.set(0, 256 * s, 256 * s, 128 * s)
FirstReflectionRect(width) ==
    Vec4(0, Scaled(256, width), Scaled(256, width), Scaled(128, width))

\* the reflection loop body after the call: y += w, z and w halved
NextReflectionRect(rect) ==
    Vec4(rect.x, rect.y + rect.w, Half(rect.z), Half(rect.w))

\* rect.set(128 * s, (256 + 128) * s, 64 * s, 32 * s)
AmbientRect(width) ==
    Vec4(Scaled(128, width), Scaled(256 + 128, width), Scaled(64, width),
         Scaled(32, width))

\* Math.max(1, 2048 >> (i * 2))
SpecularPower(i) == Max(1, 2048 \div Pow2(i * 2))

\* one reprojectTexture call: the source (its index in sources, 0 for the one
\* source of generateAtlas), the phase that issued it, and the options passed
\* (distribution "" and specularPower 0 when not passed)
Reproject(phase, source, numSamples, distribution, specularPower, rect, width) ==
    [phase |-> phase, source |-> source, numSamples |-> numSamples,
     distribution |-> distribution, specularPower |-> specularPower,
     rect |-> rect, seamPixels |-> SeamPixels(width)]

\* mutant of AtlasLevels: the subtraction dropped
AtlasLevels_NoSubtract == CalcLevels(256, 0)

\* calcLevels(256) - calcLevels(4)
AtlasLevels == CalcLevels(256, 0) - CalcLevels(4, 0)

\* mutant of PrefilteredLevels: one level more
PrefilteredLevels_PlusOne == CalcLevels(512, 0) + 1

\* calcLevels(512)
PrefilteredLevels == CalcLevels(512, 0)

\* sources.length of generatePrefilteredAtlas: an array of 6 prefiltered textures
NumSources == 6

\* the mip loop: levels calls, all reading the same source
RECURSIVE MipCalls(_, _, _, _)
MipCalls(source, rect, levels, width) ==
    IF levels = 0 THEN <<>>
    ELSE <<Reproject("mipmaps", source, 1, "", 0, rect, width)>>
         \o MipCalls(source, NextMipRect(rect), levels - 1, width)

\* the reflection loop of generateAtlas, for (let i = from; i < 7; ++i)
RECURSIVE AtlasReflectionCalls(_, _, _, _)
AtlasReflectionCalls(i, rect, options, width) ==
    IF ~(i < 7) THEN <<>>
    ELSE <<Reproject("reflections", 0, OrElse(options.numReflectionSamples, 1024),
                     OrElseStr(options.distribution, "ggx"), SpecularPower(i), rect, width)>>
         \o AtlasReflectionCalls(i + 1, NextReflectionRect(rect), options, width)

\* the reflection loop of generatePrefilteredAtlas,
\* for (let i = from; i < sources.length; ++i), reading sources[i]
RECURSIVE PrefilteredReflectionCalls(_, _, _)
PrefilteredReflectionCalls(i, rect, width) ==
    IF ~(i < NumSources) THEN <<>>
    ELSE <<Reproject("reflections", i, 1, "", 0, rect, width)>>
         \o PrefilteredReflectionCalls(i + 1, NextReflectionRect(rect), width)

\* the ambient call of generateAtlas
AtlasAmbientCall(options, width) ==
    Reproject("ambient", 0, OrElse(options.numAmbientSamples, 2048), "lambert", 0,
              AmbientRect(width), width)

\* mutant of PrefilteredAmbientCall: the legacyAmbient test inverted
PrefilteredAmbientCall_Inverted(options, width) ==
    IF ~options.legacyAmbient
    THEN Reproject("ambient", 5, 1, "", 0, AmbientRect(width), width)
    ELSE Reproject("ambient", 0, OrElse(options.numSamples, 2048), "lambert", 0,
                   AmbientRect(width), width)

\* the ambient call of generatePrefilteredAtlas
PrefilteredAmbientCall(options, width) ==
    IF options.legacyAmbient
    THEN Reproject("ambient", 5, 1, "", 0, AmbientRect(width), width)
    ELSE Reproject("ambient", 0, OrElse(options.numSamples, 2048), "lambert", 0,
                   AmbientRect(width), width)

\* the reprojectTexture calls of generateAtlas(source, options), in order
GenerateAtlasCalls(options) ==
    LET width == ResultWidth(options)
    IN  MipCalls(0, FirstMipRect(width), AtlasLevels, width)
        \o AtlasReflectionCalls(1, FirstReflectionRect(width), options, width)
        \o <<AtlasAmbientCall(options, width)>>

\* the reprojectTexture calls of generatePrefilteredAtlas(sources, options), in order
GeneratePrefilteredAtlasCalls(options) ==
    LET width == ResultWidth(options)
    IN  MipCalls(0, FirstMipRect(width), PrefilteredLevels, width)
        \o PrefilteredReflectionCalls(1, FirstReflectionRect(width), width)
        \o <<PrefilteredAmbientCall(options, width)>>

EnvCall(fn, options) == [fn |-> fn, options |-> options, width |-> ResultWidth(options)]

NoEnvCall == [fn |-> "none", options |-> [target |-> 0, size |-> 0], width |-> 0]

\* EnvLighting.generateAtlas(source, options)
GenerateAtlas(options) ==
    /\ envCall' = EnvCall("generateAtlas", options)
    /\ calls' = GenerateAtlasCalls(options)
    /\ UNCHANGED allocVars

\* EnvLighting.generatePrefilteredAtlas(sources, options)
GeneratePrefilteredAtlas(options) ==
    /\ envCall' = EnvCall("generatePrefilteredAtlas", options)
    /\ calls' = GeneratePrefilteredAtlasCalls(options)
    /\ UNCHANGED allocVars

\* the state the constructor leaves
Init ==
    /\ subdivision = 0
    /\ shadowMapResolution = DefaultShadowMapResolution
    /\ shadowMap = AllocateShadowMap(NullMap, PlaceholderResolution)
    /\ slots = <<>>
    /\ uniforms = NoUniforms
    /\ spotLights = <<>>
    /\ lastCall = Call("constructor", 0, FALSE, TRUE, "none")
    /\ omniLights = <<>>
    /\ liveMaps = LiveMapsAfterAllocate(0, NullMap, PlaceholderResolution)
    /\ steady = TRUE
    /\ envCall = NoEnvCall
    /\ calls = <<>>

Next ==
    \/ \E sp \in FrameInputs : Update(sp, <<>>)
    \/ \E sp \in FrameInputsWithOmni, omni \in OmniInputs \ {<<>>} : Update(sp, omni)
    \/ \E n \in 1..MaxSubdivide : Subdivide(n)
    \/ \E r \in Resolutions : SetShadowMapResolution(r)
    \/ Destroy

Spec == Init /\ [][Next]_vars

NextEnv ==
    \/ \E options \in AtlasOptions : GenerateAtlas(options)
    \/ \E options \in PrefilteredOptions : GeneratePrefilteredAtlas(options)

SpecEnv == Init /\ [][NextEnv]_vars


(***************************************************************************)
(* Vocabulary of the properties.                                           *)
(***************************************************************************)
\* g = ceil(sqrt(n)) for n >= 1
IsCeilSqrt(g, n) == g >= 1 /\ g * g >= n /\ (g - 1) * (g - 1) < n

\* the open interiors of rectangles a and b (rational components) intersect
Overlap(a, b) ==
    /\ RLt(a.x, RAdd(b.x, b.z)) /\ RLt(b.x, RAdd(a.x, a.z))
    /\ RLt(a.y, RAdd(b.y, b.w)) /\ RLt(b.y, RAdd(a.y, a.w))

\* rectangle a lies in the unit square
InUnitSquare(a) ==
    /\ RLe(RZero, a.x) /\ RLe(RAdd(a.x, a.z), ROne)
    /\ RLe(RZero, a.y) /\ RLe(RAdd(a.y, a.w), ROne)

RECURSIVE TotalArea(_)
TotalArea(sl) ==
    IF sl = <<>> THEN RZero ELSE RAdd(RMul(Head(sl).z, Head(sl).w), TotalArea(Tail(sl)))

\* positions in spotLights of the lights that are visible and cast shadows
Qualifying == {i \in 1..Len(spotLights) :
                  spotLights[i].visibleThisFrame /\ spotLights[i].castShadows}

\* number of qualifying lights listed before position i
Rank(i) == Cardinality({j \in Qualifying : j < i})

\* the faces of the qualifying lights, as <<position, face>> with face from 1
QualifyingFaces ==
    {<<i, f>> : i \in Qualifying, f \in 1..MaxFaces} \cap
    {p \in (1..Len(spotLights)) \X (1..MaxFaces) : p[2] <= spotLights[p[1]].numShadowFaces}

RenderData(p) == spotLights[p[1]].renderData[p[2]]

RECURSIVE SumFaces(_)
SumFaces(S) ==
    IF S = {} THEN 0
    ELSE LET i == CHOOSE i \in S : TRUE
         IN  spotLights[i].numShadowFaces + SumFaces(S \ {i})

ActiveUpdate == lastCall.op = "update" /\ Qualifying # {}

(***************************************************************************)
(* C1. After subdivide(numLights), numLights a positive integer, the       *)
(* subdivision is ceil(sqrt(numLights)) and the slot list holds exactly    *)
(* subdivision^2 rectangles of size (1/subdivision, 1/subdivision), which  *)
(* lie in the unit square, do not overlap pairwise and have total area 1   *)
(* (so they tile it without gaps), whatever the allocator held before.     *)
(***************************************************************************)
C1_SubdivideTiles ==
    lastCall.op = "subdivide" =>
        /\ IsCeilSqrt(subdivision, lastCall.numLights)
        /\ Len(slots) = subdivision * subdivision
        /\ \A k \in 1..Len(slots) :
              /\ slots[k].z = Rat(1, subdivision)
              /\ slots[k].w = Rat(1, subdivision)
              /\ InUnitSquare(slots[k])
        /\ \A k \in 1..Len(slots), l \in 1..Len(slots) :
              k # l => ~Overlap(slots[k], slots[l])
        /\ TotalArea(slots) = ROne

\* a subdivide call that replaced a 2 x 2 or smaller grid by the 3 x 3 grid
C1_Witness ==
    /\ lastCall.op = "subdivide" /\ lastCall.numLights = 5
    /\ lastCall.rebuilt /\ subdivision = 3

(***************************************************************************)
(* C2. After an update with at least one qualifying light, every face      *)
(* 0..numShadowFaces-1 of every qualifying light was assigned a slot of    *)
(* the current grid as its shadowScissor, and no two faces got the same    *)
(* slot, for any mix of face counts.                                       *)
(***************************************************************************)
C2_EveryFaceOwnSlot ==
    ActiveUpdate =>
        /\ \A p \in QualifyingFaces :
              /\ RenderData(p).written
              /\ RenderData(p).slot < Len(slots)
              /\ RenderData(p).shadowScissor = slots[RenderData(p).slot + 1]
        /\ \A p \in QualifyingFaces, q \in QualifyingFaces :
              p # q => /\ RenderData(p).slot # RenderData(q).slot
                       /\ ~Overlap(RenderData(p).shadowScissor, RenderData(q).shadowScissor)

(***************************************************************************)
(* C3. After an update with at least one qualifying light, the subdivision *)
(* is ceil(sqrt(F)), F the sum of numShadowFaces over the qualifying       *)
(* lights, so the grid has at least F slots.                               *)
(***************************************************************************)
C3_GridFitsFaces ==
    ActiveUpdate =>
        /\ IsCeilSqrt(subdivision, SumFaces(Qualifying))
        /\ Len(slots) >= SumFaces(Qualifying)

(***************************************************************************)
(* C4. An update in which no spot light is both visibleThisFrame and       *)
(* castShadows creates no shadow map and leaves shadowMap, subdivision and *)
(* the slot list as they were.                                             *)
(***************************************************************************)
C4_IdleUpdateKeeps ==
    [][(/\ lastCall'.op = "update"
        /\ \A i \in 1..Len(spotLights') :
              ~(spotLights'[i].visibleThisFrame /\ spotLights'[i].castShadows))
       => (/\ ~lastCall'.created
           /\ shadowMap' = shadowMap
           /\ subdivision' = subdivision
           /\ slots' = slots)]_vars

\* an update without qualifying lights, on an allocator that holds a grid and
\* a full-resolution shadow map from an earlier frame
C4_Witness ==
    /\ lastCall.op = "update" /\ Len(spotLights) > 0 /\ Qualifying = {}
    /\ subdivision = 2 /\ shadowMap.exists
    /\ shadowMap.width = DefaultShadowMapResolution

(***************************************************************************)
(* C5. subdivide(numLights) with ceil(sqrt(numLights)) equal to the        *)
(* current subdivision leaves the slot list as it was and rebuilds         *)
(* nothing; of two consecutive subdivide calls that map to the same grid   *)
(* size the second rebuilds nothing.                                       *)
(***************************************************************************)
C5_SameGridNoRebuild ==
    [][lastCall'.op = "subdivide" =>
         /\ IsCeilSqrt(subdivision, lastCall'.numLights) =>
               (~lastCall'.rebuilt /\ slots' = slots /\ subdivision' = subdivision)
         /\ (/\ lastCall.op = "subdivide"
             /\ \E g \in 1..lastCall.numLights :
                   IsCeilSqrt(g, lastCall.numLights) /\ IsCeilSqrt(g, lastCall'.numLights))
               => (~lastCall'.rebuilt /\ slots' = slots)]_vars

\* a subdivide call that kept the 2 x 2 grid it found
C5_Witness ==
    /\ lastCall.op = "subdivide" /\ lastCall.numLights = 3
    /\ ~lastCall.rebuilt /\ subdivision = 2 /\ Len(slots) = 4


(***************************************************************************)
(* C6. After update, for every face of every qualifying spot light, with   *)
(* m = 4 / shadowMapResolution: shadowScissor is the assigned slot,        *)
(* shadowViewport is (slot.x + m, slot.y + m, slot.width - 2m,             *)
(* slot.height - 2m), and the viewport is strictly contained in the        *)
(* scissor (both its corners lie strictly inside), for any resolution.     *)
(***************************************************************************)
StrictlyBetween(lo, v, hi) == RLt(lo, v) /\ RLt(v, hi)

StrictlyInside(v, sc) ==
    /\ StrictlyBetween(sc.x, v.x, RAdd(sc.x, sc.z))
    /\ StrictlyBetween(sc.x, RAdd(v.x, v.z), RAdd(sc.x, sc.z))
    /\ StrictlyBetween(sc.y, v.y, RAdd(sc.y, sc.w))
    /\ StrictlyBetween(sc.y, RAdd(v.y, v.w), RAdd(sc.y, sc.w))

Shrunk(slot, m) ==
    Vec4(RAdd(slot.x, m), RAdd(slot.y, m),
         RAdd(slot.z, RNeg(RAdd(m, m))), RAdd(slot.w, RNeg(RAdd(m, m))))

C6_ViewportInsideScissor ==
    ActiveUpdate =>
        \A p \in QualifyingFaces :
            spotLights[p[1]].type = LIGHTTYPE_SPOT =>
                /\ RenderData(p).written
                /\ RenderData(p).slot < Len(slots)
                /\ RenderData(p).shadowScissor = slots[RenderData(p).slot + 1]
                /\ RenderData(p).shadowViewport =
                       Shrunk(slots[RenderData(p).slot + 1], Rat(4, shadowMapResolution))
                /\ StrictlyInside(RenderData(p).shadowViewport, RenderData(p).shadowScissor)

(***************************************************************************)
(* C7. When the qualifying lights of an update are k >= 1 single-face spot *)
(* lights, the n-th of them in spotLights order (n = 0..k-1) gets slot n   *)
(* of the grid of size G = ceil(sqrt(k)): its scissor is                   *)
(* (floor(n/G)/G, (n mod G)/G, 1/G, 1/G); the other G^2 - k slots are      *)
(* assigned to no light in that call.                                      *)
(***************************************************************************)
SingleFaceSpotFrame ==
    /\ ActiveUpdate
    /\ \A i \in Qualifying :
          spotLights[i].numShadowFaces = 1 /\ spotLights[i].type = LIGHTTYPE_SPOT

C7_RowMajorAssignment ==
    SingleFaceSpotFrame =>
        LET k == Cardinality(Qualifying)
            G == subdivision
        IN  /\ IsCeilSqrt(G, k)
            /\ Len(slots) = G * G
            /\ lastCall.threw = "none"
            /\ \A i \in Qualifying :
                  LET rd == spotLights[i].renderData[1]
                      n == Rank(i)
                  IN  /\ rd.written /\ rd.slot = n
                      /\ rd.shadowScissor = slots[n + 1]
                      /\ rd.shadowScissor =
                            Vec4(Rat(n \div G, G), Rat(n % G, G), Rat(1, G), Rat(1, G))
            /\ \A u \in k..(G * G - 1) :
                  \A i \in Qualifying : spotLights[i].renderData[1].slot # u

\* five qualifying single-face spot lights on the 3 x 3 grid
C7_Witness ==
    /\ SingleFaceSpotFrame /\ Cardinality(Qualifying) = 5
    /\ subdivision = 3 /\ Len(slots) = 9
    /\ spotLights[5].renderData[1].slot = 4

(***************************************************************************)
(* Vocabulary of the environment atlas properties.                         *)
(***************************************************************************)
\* the interiors of two pixel rectangles intersect
OverlapPx(a, b) ==
    /\ a.x < b.x + b.z /\ b.x < a.x + a.z
    /\ a.y < b.y + b.w /\ b.y < a.y + a.w

\* rectangle r lies in the S x S atlas
InsideAtlas(r, S) ==
    /\ 0 <= r.x /\ r.x + r.z <= S
    /\ 0 <= r.y /\ r.y + r.w <= S

RectsDisjointInside(S) ==
    /\ \A k \in 1..Len(calls) : InsideAtlas(calls[k].rect, S)
    /\ \A k \in 1..Len(calls), l \in 1..Len(calls) :
          k # l => ~OverlapPx(calls[k].rect, calls[l].rect)

(***************************************************************************)
(* C8. For generateAtlas with atlas size S = 512 * 2^k, the 13 rectangles  *)
(* passed to the resampler are pairwise non-overlapping and each lies      *)
(* inside the S x S atlas.                                                 *)
(***************************************************************************)
C8_AtlasRectsDisjointInside ==
    (envCall.fn = "generateAtlas" /\ envCall.width % 512 = 0) =>
        /\ Len(calls) = 13
        /\ RectsDisjointInside(envCall.width)

\* a generateAtlas call for a 1024 atlas
C8_Witness ==
    /\ envCall.fn = "generateAtlas" /\ envCall.width = 1024
    /\ Len(calls) = 13 /\ calls[6].rect = Vec4(992, 992, 32, 16)

(***************************************************************************)
(* C9. For generatePrefilteredAtlas with 6 sources and every power-of-two  *)
(* atlas size S (128, 256, 512, 1024, 2048), every rectangle passed to the *)
(* resampler lies inside the S x S atlas and the rectangles are pairwise   *)
(* non-overlapping.                                                        *)
(***************************************************************************)
C9_PrefilteredRectsAnySize ==
    envCall.fn = "generatePrefilteredAtlas" => RectsDisjointInside(envCall.width)

\* C9 as amended: the same for the atlas sizes S = 512 * 2^k (512, 1024,
\* 2048); for S = 128 and S = 256 the last mip rectangles lie outside the atlas
C9_PrefilteredRectsFrom512 ==
    (envCall.fn = "generatePrefilteredAtlas" /\ envCall.width % 512 = 0) =>
        RectsDisjointInside(envCall.width)

\* a generatePrefilteredAtlas call for the default 512 atlas, whose last mip
\* rectangle is the last pixel of the diagonal
C9_Witness ==
    /\ envCall.fn = "generatePrefilteredAtlas" /\ envCall.width = 512
    /\ Len(calls) = 16 /\ calls[10].rect = Vec4(511, 511, 1, 1)

(***************************************************************************)
(* C10. generateAtlas issues exactly 13 resampling calls in this order:    *)
(* 6 mip-pyramid calls (numSamples 1), 6 reflection calls (i = 1..6), one  *)
(* ambient call ('lambert'), for every atlas size and options; every call  *)
(* carries seamPixels = S / 512.                                           *)
(***************************************************************************)
C10_AtlasCallOrder ==
    envCall.fn = "generateAtlas" =>
        /\ Len(calls) = 13
        /\ \A k \in 1..6 :
              /\ calls[k].phase = "mipmaps" /\ calls[k].numSamples = 1
              /\ calls[k].distribution = "" /\ calls[k].specularPower = 0
        /\ \A i \in 1..6 :
              /\ calls[6 + i].phase = "reflections"
              /\ calls[6 + i].distribution # "" /\ calls[6 + i].distribution # "lambert"
              /\ calls[6 + i].specularPower = Max(1, 2048 \div Pow2(2 * i))
        /\ calls[13].phase = "ambient" /\ calls[13].distribution = "lambert"
        /\ \A k \in 1..13 : calls[k].seamPixels = Rat(envCall.width, 512)

\* a generateAtlas call with a non-default size and sample counts
C10_Witness ==
    /\ envCall.fn = "generateAtlas" /\ envCall.width = 256
    /\ envCall.options.numReflectionSamples = 64
    /\ envCall.options.distribution = "phong"
    /\ Len(calls) = 13 /\ calls[13].numSamples = 2048


(***************************************************************************)
(* C11. For generateAtlas, the k-th rectangle emitted with size 1024 is    *)
(* exactly 2 times the k-th rectangle emitted with size 512 in x, y, width *)
(* and height, for every k; both runs emit the same number of calls and    *)
(* the same numSamples per call.                                           *)
(***************************************************************************)
\* the calls of the same generateAtlas invocation on a new 512 atlas
CallsAt512 == GenerateAtlasCalls([envCall.options EXCEPT !.target = 0, !.size = 512])

Twice(r) == Vec4(2 * r.x, 2 * r.y, 2 * r.z, 2 * r.w)

C11_Scale1024Is2x512 ==
    (envCall.fn = "generateAtlas" /\ envCall.width = 1024) =>
        /\ Len(calls) = Len(CallsAt512)
        /\ \A k \in 1..Len(calls) :
              /\ calls[k].rect = Twice(CallsAt512[k].rect)
              /\ calls[k].numSamples = CallsAt512[k].numSamples

\* a generateAtlas call with size 1024 and its own sample counts
C11_Witness ==
    /\ envCall.fn = "generateAtlas" /\ envCall.width = 1024
    /\ envCall.options.target = 0 /\ envCall.options.numAmbientSamples = 32
    /\ Len(calls) = 13 /\ calls[1].rect = Vec4(0, 0, 1024, 512)

(***************************************************************************)
(* C12. generatePrefilteredAtlas with 6 sources emits a mip-pyramid phase  *)
(* of exactly 9 calls, all reading sources[0] with numSamples 1; then      *)
(* exactly 5 reflection calls reading sources[1], ..., sources[5] in that  *)
(* order with numSamples 1; then exactly one ambient call, which reads     *)
(* sources[5] with numSamples 1 when legacyAmbient is true and otherwise   *)
(* reads sources[0] with distribution 'lambert' and numSamples (default    *)
(* 2048).                                                                  *)
(***************************************************************************)
\* the phases of a generatePrefilteredAtlas call whose mip phase has n calls
PrefilteredPhases(n) ==
    /\ Len(calls) = n + 5 + 1
    /\ \A k \in 1..n :
          /\ calls[k].phase = "mipmaps" /\ calls[k].source = 0
          /\ calls[k].numSamples = 1
    /\ \A i \in 1..5 :
          /\ calls[n + i].phase = "reflections" /\ calls[n + i].source = i
          /\ calls[n + i].numSamples = 1
    /\ LET a == calls[n + 6]
       IN  /\ a.phase = "ambient"
           /\ IF envCall.options.legacyAmbient
              THEN a.source = 5 /\ a.numSamples = 1
              ELSE /\ a.source = 0 /\ a.distribution = "lambert"
                   /\ a.numSamples = IF envCall.options.numSamples = 0 THEN 2048
                                     ELSE envCall.options.numSamples

C12_PrefilteredNineMips ==
    envCall.fn = "generatePrefilteredAtlas" => PrefilteredPhases(9)

\* C12 as amended: the mip-pyramid phase has exactly 10 calls, calcLevels(512)
C12_PrefilteredTenMips ==
    envCall.fn = "generatePrefilteredAtlas" => PrefilteredPhases(10)

\* a legacyAmbient call, whose ambient call copies sources[5]
C12_Witness ==
    /\ envCall.fn = "generatePrefilteredAtlas" /\ envCall.options.legacyAmbient
    /\ Len(calls) = 16 /\ calls[16].source = 5 /\ calls[11].source = 1

(***************************************************************************)
(* C14. In the generateAtlas mip-pyramid loop, after each resampling call  *)
(* the rectangle's x and y are each increased by the rectangle's current   *)
(* width, and then width and height are each replaced by                   *)
(* max(1, floor(value / 2)); starting from (0, 0, 512s, 256s).             *)
(***************************************************************************)
HalfOf(v) == IF v \div 2 < 1 THEN 1 ELSE v \div 2

\* the mip rectangles of generateAtlas start at (0, 0, 512s, 256s) and each
\* next one is advanced in x and y by step(previous) and halved
MipPyramidAdvancesBy(step(_)) ==
    /\ calls[1].rect = Vec4(0, 0, envCall.width, envCall.width \div 2)
    /\ \A k \in 1..5 :
          LET r == calls[k].rect
          IN  calls[k + 1].rect =
                  Vec4(r.x + step(r), r.y + step(r), HalfOf(r.z), HalfOf(r.w))

RectWidth(r) == r.z
RectHeight(r) == r.w

C14_MipAdvanceByWidth ==
    envCall.fn = "generateAtlas" => MipPyramidAdvancesBy(RectWidth)

\* C14 as amended: x and y are each increased by the rectangle's current
\* height (rect.w, the fourth component), not by its width (rect.z)
C14_MipAdvanceByHeight ==
    envCall.fn = "generateAtlas" => MipPyramidAdvancesBy(RectHeight)

\* a generateAtlas call on a 512 atlas: the second mip rectangle starts at (256, 256)
C14_Witness ==
    /\ envCall.fn = "generateAtlas" /\ envCall.width = 512
    /\ calls[2].rect = Vec4(256, 256, 256, 128)
    /\ calls[6].rect = Vec4(496, 496, 16, 8)

(***************************************************************************)
(* C13. Across any sequence of update calls, a shadow-map texture is       *)
(* created only in an Active update in which the allocator has no shadow   *)
(* map or its texture width differs from shadowMapResolution; with         *)
(* shadowMapResolution held constant, exactly one creation happens after   *)
(* construction (the first Active update replaces the resolution-1         *)
(* placeholder) and every later update reuses that same shadow-map object, *)
(* whose cached flag is false.                                             *)
(***************************************************************************)
C13_CreateOnlyWhenWidthDiffers ==
    [][/\ lastCall'.created =>
            /\ ActiveUpdate'
            /\ ~shadowMap.exists \/ shadowMap.width # shadowMapResolution
       /\ (steady' /\ lastCall'.op = "update") =>
            /\ ActiveUpdate' =>
                  /\ lastCall'.created <=> shadowMap.width = PlaceholderResolution
                  /\ shadowMap'.width = shadowMapResolution
                  /\ liveMaps' = 2
            /\ shadowMap.width # PlaceholderResolution =>
                  ~lastCall'.created /\ shadowMap' = shadowMap /\ liveMaps' = liveMaps
            /\ ~shadowMap'.cached]_vars

\* a later Active update with the resolution as constructed: it reuses the
\* shadow map that the first Active update created
C13_Witness ==
    /\ steady /\ ActiveUpdate /\ ~lastCall.created /\ lastCall.rebuilt
    /\ shadowMap.width = DefaultShadowMapResolution /\ ~shadowMap.cached
    /\ liveMaps = 2

(***************************************************************************)
(* C15. No hysteresis: the viewport and scissor rectangles written by an   *)
(* Active update depend only on that call's qualifying lights and on       *)
(* shadowMapResolution, not on any earlier call; two allocators with       *)
(* different call histories that receive the same frame input write        *)
(* identical rectangles and end with the same subdivision and slot list.   *)
(***************************************************************************)
\* the spotLights list as the last update call received it: the call leaves a
\* light that does not qualify as it was, and a qualifying light came in new
FrameInput ==
    [i \in 1..Len(spotLights) |->
        IF i \in Qualifying
        THEN Light(spotLights[i].type, TRUE, TRUE, spotLights[i].numShadowFaces)
        ELSE spotLights[i]]

\* what update(sp, ...) leaves on an allocator that was just constructed and
\* whose shadowMapResolution was then set to resolution
FirstUpdate(sp, resolution) ==
    LET lights == CollectLights(sp)
        sub == SubdivideResult(0, <<>>, NumRequiredSlots(sp, lights))
        sm == AllocateShadowMap(AllocateShadowMap(NullMap, PlaceholderResolution),
                                resolution)
        asg == AssignSlots(sp, lights, sub.slots, sm, ScissorVec(resolution))
    IN  [subdivision |-> sub.subdivision, slots |-> sub.slots,
         spotLights |-> asg.spotLights]

C15_NoHysteresis ==
    ActiveUpdate =>
        LET first == FirstUpdate(FrameInput, shadowMapResolution)
        IN  /\ subdivision = first.subdivision
            /\ slots = first.slots
            /\ \A p \in QualifyingFaces :
                  /\ RenderData(p).shadowViewport =
                        first.spotLights[p[1]].renderData[p[2]].shadowViewport
                  /\ RenderData(p).shadowScissor =
                        first.spotLights[p[1]].renderData[p[2]].shadowScissor
                  /\ RenderData(p).written =
                        first.spotLights[p[1]].renderData[p[2]].written

\* an Active update of one light on an allocator that earlier held another
\* grid, a shadow map of another resolution and was destroyed or reconfigured
C15_Witness ==
    /\ ActiveUpdate /\ ~steady /\ liveMaps = 3
    /\ lastCall.rebuilt /\ ~lastCall.created
    /\ subdivision = 1 /\ RenderData(<<1, 1>>).written

(***************************************************************************)
(* C16. update never writes shadowViewport, shadowScissor or _shadowMap of *)
(* any light in omniLights, nor of spot lights that fail the               *)
(* visibleThisFrame and castShadows test; they keep whatever values they   *)
(* had, and the resulting grid size and slot assignment are the same for   *)
(* every content of omniLights.                                            *)
(***************************************************************************)
\* light l is as one of the lights of S was passed to update: no face written
\* by the call, rectangles and shadow map as they came in
AsPassed(l, S) == l \in S /\ \A f \in 1..l.numShadowFaces : ~l.renderData[f].written

C16_OmniAndNonQualifyingUntouched ==
    lastCall.op = "update" =>
        /\ omniLights \in OmniInputs
        /\ \A i \in 1..Len(omniLights) :
              AsPassed(omniLights[i], {Light(LIGHTTYPE_OMNI, TRUE, TRUE, MaxFaces),
                                       StaleLight(LIGHTTYPE_OMNI, TRUE, TRUE, MaxFaces)})
        /\ \A i \in (1..Len(spotLights)) \ Qualifying :
              AsPassed(spotLights[i],
                       NonQualifyingKinds \cup {StaleLight(LIGHTTYPE_SPOT, FALSE, TRUE, 1)})
        /\ ActiveUpdate =>
              LET first == FirstUpdate(FrameInput, shadowMapResolution)
              IN  /\ IsCeilSqrt(subdivision, Cardinality(Qualifying))
                  /\ subdivision = first.subdivision
                  /\ \A p \in QualifyingFaces :
                        /\ RenderData(p).written =
                              first.spotLights[p[1]].renderData[p[2]].written
                        /\ RenderData(p).slot =
                              first.spotLights[p[1]].renderData[p[2]].slot

\* an Active update of one spot light that was passed an omni light holding
\* the rectangles and the shadow map of an earlier frame
C16_Witness ==
    /\ ActiveUpdate /\ lastCall.threw = "none"
    /\ omniLights = <<StaleLight(LIGHTTYPE_OMNI, TRUE, TRUE, MaxFaces)>>
    /\ subdivision = 1 /\ RenderData(<<1, 1>>).written

(***************************************************************************)
(* C17. After any sequence of update calls the slot list equals the        *)
(* pristine tiling for the current subdivision G: the slot at index        *)
(* i * G + j is (i / G, j / G, 1 / G, 1 / G). Assigning a slot to a light  *)
(* and shrinking that light's viewport never changes a stored slot         *)
(* rectangle.                                                              *)
(***************************************************************************)
PristineTiling(sl, g) ==
    /\ Len(sl) = g * g
    /\ \A i \in 0..(g - 1), j \in 0..(g - 1) :
          sl[i * g + j + 1] = Vec4(Rat(i, g), Rat(j, g), Rat(1, g), Rat(1, g))

C17_SlotsStayPristine ==
    [][/\ PristineTiling(slots', subdivision')
       /\ (lastCall'.op = "update" /\ ~lastCall'.rebuilt) => slots' = slots]_vars

\* an Active update that kept the 2 x 2 grid it found and shrank the viewport
\* of the spot light that got the first slot
C17_Witness ==
    /\ ActiveUpdate /\ ~lastCall.rebuilt /\ subdivision = 2
    /\ spotLights[1].type = LIGHTTYPE_SPOT /\ RenderData(<<1, 1>>).written
    /\ RenderData(<<1, 1>>).shadowScissor = slots[1]
    /\ RenderData(<<1, 1>>).shadowViewport # slots[1]
    /\ PristineTiling(slots, 2)

(***************************************************************************)
(* C18. Every shadowViewport written by update for a spot-light face has   *)
(* strictly positive width and height, i.e. 1/G - 8/shadowMapResolution    *)
(* > 0, for every number of qualifying lights and every resolution > 0.    *)
(***************************************************************************)
\* the faces of spot lights that the last update call wrote
WrittenSpotFaces ==
    {p \in QualifyingFaces :
        spotLights[p[1]].type = LIGHTTYPE_SPOT /\ RenderData(p).written}

C18_ViewportPositive ==
    \A p \in WrittenSpotFaces :
        /\ RLt(RZero, RenderData(p).shadowViewport.z)
        /\ RLt(RZero, RenderData(p).shadowViewport.w)

\* C18 as amended: the width and height written are 1/G - 8/shadowMapResolution,
\* which is strictly positive exactly when shadowMapResolution > 8 * G
C18_ViewportPositiveIffWide ==
    \A p \in WrittenSpotFaces :
        LET side == RAdd(Rat(1, subdivision), RNeg(Rat(8, shadowMapResolution)))
        IN  /\ RenderData(p).shadowViewport.z = side
            /\ RenderData(p).shadowViewport.w = side
            /\ RLt(RZero, RenderData(p).shadowViewport.z)
                  <=> shadowMapResolution > 8 * subdivision

\* five spot lights on a 3 x 3 grid at the default resolution: the viewport of
\* the fifth is 1/3 - 8/2048 = 253/768 wide
C18_Witness ==
    /\ ActiveUpdate /\ subdivision = 3
    /\ shadowMapResolution = DefaultShadowMapResolution
    /\ <<5, 1>> \in WrittenSpotFaces
    /\ RenderData(<<5, 1>>).shadowViewport.z = Rat(253, 768)

(***************************************************************************)
(* C19. At the end of every update call (Idle or Active, including the     *)
(* first calls after construction) the scalar pushed to shadowAtlasParams  *)
(* equals the width of the shadow-map texture whose buffer is pushed in    *)
(* the same call.                                                          *)
(***************************************************************************)
\* the last call was an update that reached updateUniforms and pushed
PushingUpdate == lastCall.op = "update" /\ uniforms.set

C19_ParamsEqualTextureWidth ==
    PushingUpdate => uniforms.params = uniforms.textureWidth

\* C19 as amended: the scalar pushed is shadowMapResolution and the texture
\* pushed is the current shadow map's; they agree after every Active update,
\* and after an Idle update exactly when the map found has that width
C19_ParamsIsResolution ==
    PushingUpdate =>
        /\ uniforms.params = shadowMapResolution
        /\ uniforms.textureWidth = shadowMap.width
        /\ ActiveUpdate => uniforms.params = uniforms.textureWidth
        /\ ~ActiveUpdate =>
              (uniforms.params = uniforms.textureWidth
                  <=> shadowMap.width = shadowMapResolution)

\* an Idle update right after construction: it pushes the buffer of the
\* width-1 placeholder and the scalar 2048
C19_Witness ==
    /\ PushingUpdate /\ ~ActiveUpdate /\ steady /\ liveMaps = 1
    /\ uniforms.textureWidth = PlaceholderResolution
    /\ uniforms.params = DefaultShadowMapResolution

(***************************************************************************)
(* C20. The allocator keeps at most one live shadow map at any time:       *)
(* whenever allocateShadowMap replaces an existing shadow map the previous *)
(* one has been destroyed, and after destroy() no shadow map created by    *)
(* the allocator remains live.                                             *)
(***************************************************************************)
C20_AtMostOneLiveMap ==
    /\ liveMaps <= 1
    /\ lastCall.op = "destroy" => liveMaps = 0

====
